---- MODULE Spec2Model ----
(***************************************************************************)
(* The todo REST API (Express + sqlite3), the server monitor script and    *)
(* the Jira webhook simulator of ag-devops, as state machines.             *)
(*                                                                         *)
(* JSON and SQL scalars are strings: UNDEF is a key that is absent from a  *)
(* JSON body (JavaScript undefined), NULL is JSON null / SQL NULL, "true"  *)
(* and "false" are JSON booleans, "0" and "1" are SQL integers.  Ids,      *)
(* user ids and timestamps are integers.                                   *)
(***************************************************************************)
EXTENDS Integers, Sequences, FiniteSets, TLC

\* ------------------------------------------------------------------ bounds
\* requests the clients send in one run
MaxReq == 2
\* CURRENT_TIMESTAMP takes the values 0..MaxClock
MaxClock == 1

\* ------------------------------------------------------------------ values
UNDEF == "undefined"
NULL == "null"
NoErr == "ok"
\* a failure of the database underneath a statement (disk, lock)
IoErr == "SQLITE_BUSY: database is locked"
NotNullErr == "SQLITE_CONSTRAINT: NOT NULL constraint failed: todos.title"

\* user_id absent from the body or the query string
NoUser == 0
DefaultUser == 1

\* JavaScript: !v for the values a title takes here
Falsy(v) == v \in {UNDEF, NULL, "", "false"}

\* JavaScript: v || d on a user id
OrDefault(v, d) == IF v = NoUser THEN d ELSE v

\* destructuring default: { x = d } = body applies d only to undefined
Default(v, d) == IF v = UNDEF THEN d ELSE v

\* node-sqlite3 binding of a parameter: undefined is left unbound (NULL),
\* booleans become integers
Bind(v) ==
  CASE v = UNDEF -> NULL
    [] v = "true" -> "1"
    [] v = "false" -> "0"
    [] OTHER -> v

\* SQL COALESCE(a, b)
COALESCE(a, b) == IF a # NULL THEN a ELSE b

\* ------------------------------------------------------------------ schema
Row(i, ti, de, co, pr, ca, du, us, cr, up) ==
  [id |-> i, title |-> ti, description |-> de, completed |-> co,
   priority |-> pr, category |-> ca, due_date |-> du, user_id |-> us,
   created_at |-> cr, updated_at |-> up]

\* column defaults of CREATE TABLE todos
DefaultCompleted == "0"
DefaultPriority == "medium"
DefaultCategory == "general"

\* title TEXT NOT NULL
NotNullOK(row) == row.title # NULL

\* the three rows database.js inserts when it creates the table
SampleTodos ==
  [i \in 1..3 |->
     CASE i = 1 -> Row(1, "Welcome to Todo App", "This is your first todo item", "0",
                        "high", DefaultCategory, NULL, 1, 0, 0)
       [] i = 2 -> Row(2, "Learn React", "Study React components and hooks", "1",
                        DefaultPriority, DefaultCategory, NULL, 1, 0, 0)
       [] i = 3 -> Row(3, "Build API", "Create REST API endpoints", "0",
                        "high", DefaultCategory, NULL, 1, 0, 0)]

\* ------------------------------------------------------------------ inputs
Body(ti, de, co, pr, ca, du, us) ==
  [title |-> ti, description |-> de, completed |-> co, priority |-> pr,
   category |-> ca, due_date |-> du, user_id |-> us]

EmptyBody == Body(UNDEF, UNDEF, UNDEF, UNDEF, UNDEF, UNDEF, NoUser)

PostBodies ==
  { EmptyBody,
    Body(NULL, UNDEF, UNDEF, UNDEF, UNDEF, UNDEF, NoUser),
    Body("", "no title", UNDEF, UNDEF, UNDEF, UNDEF, NoUser),
    Body("Buy milk", UNDEF, UNDEF, UNDEF, UNDEF, UNDEF, NoUser),
    Body("Pay rent", "monthly", UNDEF, NULL, "home", UNDEF, 2) }

PutBodies ==
  { Body(UNDEF, UNDEF, "true", UNDEF, UNDEF, UNDEF, NoUser),
    Body(UNDEF, UNDEF, "false", UNDEF, UNDEF, UNDEF, NoUser),
    Body("Renamed", UNDEF, UNDEF, UNDEF, UNDEF, UNDEF, NoUser),
    Body("", NULL, UNDEF, "low", UNDEF, UNDEF, NoUser),
    Body(NULL, "note", UNDEF, UNDEF, "work", "2026-01-01", NoUser) }

\* the ids the clients address: the newest sample row and the first new row
ReqIds == {Cardinality(DOMAIN SampleTodos), Cardinality(DOMAIN SampleTodos) + 1}

\* the clients of the server, each with at most one request outstanding
Clients == {"tab1", "tab2"}
UserQueries == {NoUser, 2}
Faults == {NoErr, IoErr}

\* ------------------------------------------------------------------ state
VARIABLES
  todos,      \* the todos table: id -> row, for the ids that have a row
  nextId,     \* AUTOINCREMENT: the id the next INSERT gets
  now,        \* CURRENT_TIMESTAMP
  inflight,   \* requests whose handler has run and that wait for the database
  last,       \* the request answered most recently, with its response
  reqCount,   \* requests started so far
  writer,     \* history: id -> rid of the request whose statement last wrote the row
  acked       \* history: id -> the last PUT {completed: c} on it answered 200

\* ------------------------------------------------------------------ responses
NoBody == [kind |-> "none", rows |-> <<>>, text |-> ""]
ErrorBody(msg) == [kind |-> "error", rows |-> <<>>, text |-> msg]
MessageBody(msg) == [kind |-> "message", rows |-> <<>>, text |-> msg]
\* res.json(row) of db.get: the row, or nothing at all when db.get found none
RowBody(tbl, i) ==
  [kind |-> "row", rows |-> IF i \in DOMAIN tbl THEN <<tbl[i]>> ELSE <<>>, text |-> ""]
ListBody(rs) == [kind |-> "list", rows |-> rs, text |-> ""]

\* what a handler or callback does, in order: res.status(s).json(b), or the
\* next db call
Respond(s, b) == [op |-> "respond", status |-> s, resp |-> b]
IssueDb == [op |-> "db", status |-> 0, resp |-> NoBody]

Request(rid, m, i, u, b, pc) ==
  [rid |-> rid, method |-> m, id |-> i, userq |-> u, body |-> b, pc |-> pc,
   lastID |-> 0, status |-> 0, resp |-> NoBody, answers |-> 0, err |-> NoErr]

NoRequest == Request(0, "none", 0, NoUser, EmptyBody, "done")

Responds(effs) == {k \in 1..Len(effs) : effs[k].op = "respond"}
FirstRespond(effs) == effs[CHOOSE k \in Responds(effs) : \A j \in Responds(effs) : k <= j]

\* the request after a handler or callback ran the effects effs: the first
\* response is the one the client gets, every res.json call counts as an answer,
\* and an issued db call leaves the request waiting at nextpc
After(r, effs, err, nextpc) ==
  [r EXCEPT !.answers = r.answers + Cardinality(Responds(effs)),
            !.status = IF r.answers = 0 /\ Responds(effs) # {}
                       THEN FirstRespond(effs).status ELSE r.status,
            !.resp = IF r.answers = 0 /\ Responds(effs) # {}
                     THEN FirstRespond(effs).resp ELSE r.resp,
            !.err = err,
            !.pc = IF \E k \in 1..Len(effs) : effs[k].op = "db" THEN nextpc ELSE "done"]

\* the effects applied to the server: the request waits for its next
\* statement, or it is over and its response is the last one sent
SettleAs(r, r1, effs, err, nextpc) ==
  LET r2 == After(r1, effs, err, nextpc) IN
  IF r2.pc # "done"
  THEN /\ inflight' = (inflight \ {r}) \cup {r2}
       /\ last' = IF r2.answers > r.answers THEN r2 ELSE last
  ELSE /\ inflight' = inflight \ {r}
       /\ last' = r2

Settle(r, effs, err, nextpc) == SettleAs(r, r, effs, err, nextpc)

CanStart == reqCount < MaxReq /\ Cardinality(inflight) < Cardinality(Clients)

\* a handler's synchronous part: it answers at once or queues its first statement
Start(r, effs, nextpc) ==
  /\ CanStart
  /\ reqCount' = reqCount + 1
  /\ Settle(r, effs, NoErr, nextpc)
  /\ UNCHANGED <<todos, nextId, now, writer, acked>>

\* CURRENT_TIMESTAMP read by a statement: time has passed since the last read, or not
Clock(t) == t \in {now, now + 1} /\ t <= MaxClock

\* ------------------------------------------------------------------ SQL
\* what db.run hands its callback: err, this.changes, this.lastID; and the table
Result(e, tbl, c, l) == [err |-> e, tbl |-> tbl, changes |-> c, lastID |-> l]

\* the constraint a written table is held to
Constraint(tbl) ==
  IF \E i \in DOMAIN tbl : ~NotNullOK(tbl[i]) THEN NotNullErr ELSE NoErr

\* a statement that writes tbl2 over tbl: the database's own failure, else the
\* constraint's, else the write
Write(fault, tbl, tbl2, c, l) ==
  IF fault # NoErr THEN Result(fault, tbl, 0, 0)
  ELSE IF Constraint(tbl2) # NoErr THEN Result(Constraint(tbl2), tbl, 0, 0)
  ELSE Result(NoErr, tbl2, c, l)

\* createTodo without its destructuring default for priority
InsertRow_NoDefault(nid, b, t) ==
  Row(nid, Bind(b.title), Bind(b.description), DefaultCompleted,
      Bind(b.priority), Bind(Default(b.category, "general")),
      Bind(b.due_date), OrDefault(b.user_id, DefaultUser), t, t)

\* INSERT INTO todos (title, description, priority, category, due_date, user_id)
\* with the parameters createTodo binds; the other columns take their defaults
InsertRow(nid, b, t) ==
  Row(nid, Bind(b.title), Bind(b.description), DefaultCompleted,
      Bind(Default(b.priority, "medium")), Bind(Default(b.category, "general")),
      Bind(b.due_date), OrDefault(b.user_id, DefaultUser), t, t)

SqlInsert(fault, tbl, nid, b, t) ==
  Write(fault, tbl,
        [j \in DOMAIN tbl \cup {nid} |-> IF j = nid THEN InsertRow(nid, b, t) ELSE tbl[j]],
        1, nid)

\* the UPDATE without completed in its SET list
UpdateRow_NoCompleted(old, b, t) ==
  [old EXCEPT !.title = COALESCE(Bind(b.title), old.title),
              !.description = COALESCE(Bind(b.description), old.description),
              !.priority = COALESCE(Bind(b.priority), old.priority),
              !.category = COALESCE(Bind(b.category), old.category),
              !.due_date = COALESCE(Bind(b.due_date), old.due_date),
              !.updated_at = t]

\* the UPDATE with description = ? in place of COALESCE(?, description)
UpdateRow_Overwrite(old, b, t) ==
  [old EXCEPT !.title = COALESCE(Bind(b.title), old.title),
              !.description = Bind(b.description),
              !.completed = COALESCE(Bind(b.completed), old.completed),
              !.priority = COALESCE(Bind(b.priority), old.priority),
              !.category = COALESCE(Bind(b.category), old.category),
              !.due_date = COALESCE(Bind(b.due_date), old.due_date),
              !.updated_at = t]

\* UPDATE todos SET c = COALESCE(?, c), ..., updated_at = CURRENT_TIMESTAMP
UpdateRow(old, b, t) ==
  [old EXCEPT !.title = COALESCE(Bind(b.title), old.title),
              !.description = COALESCE(Bind(b.description), old.description),
              !.completed = COALESCE(Bind(b.completed), old.completed),
              !.priority = COALESCE(Bind(b.priority), old.priority),
              !.category = COALESCE(Bind(b.category), old.category),
              !.due_date = COALESCE(Bind(b.due_date), old.due_date),
              !.updated_at = t]

\* the UPDATE with title = ? in place of COALESCE(?, title), on a table whose
\* title column is not declared NOT NULL
SqlUpdate_TitleUnchecked(fault, tbl, i, b, t) ==
  IF fault # NoErr THEN Result(fault, tbl, 0, 0)
  ELSE Result(NoErr,
              [j \in DOMAIN tbl |->
                 IF j = i THEN [tbl[j] EXCEPT !.title = Bind(b.title), !.updated_at = t]
                 ELSE tbl[j]],
              Cardinality({j \in DOMAIN tbl : j = i}), 0)

\* ... WHERE id = ?
SqlUpdate(fault, tbl, i, b, t) ==
  Write(fault, tbl,
        [j \in DOMAIN tbl |-> IF j = i THEN UpdateRow(tbl[j], b, t) ELSE tbl[j]],
        Cardinality({j \in DOMAIN tbl : j = i}), 0)

\* the DELETE without its WHERE clause
SqlDelete_NoWhere(fault, tbl, i) ==
  Write(fault, tbl, [j \in {} |-> tbl[j]], Cardinality(DOMAIN tbl), 0)

\* DELETE FROM todos WHERE id = ?
SqlDelete(fault, tbl, i) ==
  Write(fault, tbl,
        [j \in {k \in DOMAIN tbl : ~(k = i)} |-> tbl[j]],
        Cardinality({j \in DOMAIN tbl : j = i}), 0)

\* ORDER BY created_at DESC: the ids of S in any order that has the newer row
\* first (rows of one second in either order)
RECURSIVE Newest(_, _)
Newest(tbl, S) ==
  IF S = {} THEN {<<>>}
  ELSE UNION {{<<i>> \o s : s \in Newest(tbl, S \ {i})} :
                i \in {i \in S : \A j \in S : tbl[i].created_at >= tbl[j].created_at}}

\* the SELECT without its WHERE clause
SelectByUser_AllUsers(tbl, u) == Newest(tbl, DOMAIN tbl)

\* SELECT * FROM todos WHERE user_id = ? ORDER BY created_at DESC
SelectByUser(tbl, u) == Newest(tbl, {i \in DOMAIN tbl : tbl[i].user_id = u})

\* ------------------------------------------------------------------ getAllTodos
\* the callback without the return in front of its error response
getAllTodos_cb_NoReturn(err, rows) ==
  IF err # NoErr THEN <<Respond(500, ErrorBody(err)), Respond(200, ListBody(rows))>>
  ELSE <<Respond(200, ListBody(rows))>>

getAllTodos_cb(err, rows) ==
  IF err # NoErr THEN <<Respond(500, ErrorBody(err))>>
  ELSE <<Respond(200, ListBody(rows))>>

getAllTodos(u) ==
  Start(Request(reqCount + 1, "GET", 0, u, EmptyBody, "start"), <<IssueDb>>, "all")

getAllTodos_all(r) ==
  /\ r.pc = "all"
  /\ \E fault \in Faults :
     \E s \in SelectByUser(todos, OrDefault(r.userq, DefaultUser)) :
        Settle(r, getAllTodos_cb(fault, [k \in DOMAIN s |-> todos[s[k]]]), fault, "done")
  /\ UNCHANGED <<todos, nextId, now, reqCount, writer, acked>>

\* ------------------------------------------------------------------ getTodoById
getTodoById_cb(err, tbl, i) ==
  IF err # NoErr THEN <<Respond(500, ErrorBody(err))>>
  ELSE IF i \notin DOMAIN tbl THEN <<Respond(404, ErrorBody("Todo not found"))>>
  ELSE <<Respond(200, RowBody(tbl, i))>>

getTodoById(i) ==
  Start(Request(reqCount + 1, "GETID", i, NoUser, EmptyBody, "start"), <<IssueDb>>, "one")

getTodoById_get(r) ==
  /\ r.pc = "one"
  /\ \E fault \in Faults : Settle(r, getTodoById_cb(fault, todos, r.id), fault, "done")
  /\ UNCHANGED <<todos, nextId, now, reqCount, writer, acked>>

\* ------------------------------------------------------------------ createTodo
\* the check as title === undefined
createTodo_check_Undefined(b) ==
  IF b.title = UNDEF THEN <<Respond(400, ErrorBody("Title is required"))>>
  ELSE <<IssueDb>>

createTodo_check(b) ==
  IF Falsy(b.title) THEN <<Respond(400, ErrorBody("Title is required"))>>
  ELSE <<IssueDb>>

createTodo_cb(err) ==
  IF err # NoErr THEN <<Respond(500, ErrorBody(err))>>
  ELSE <<IssueDb>>

createTodo_cb2(err, tbl, i) ==
  IF err # NoErr THEN <<Respond(500, ErrorBody(err))>>
  ELSE <<Respond(201, RowBody(tbl, i))>>

createTodo(b) ==
  Start(Request(reqCount + 1, "POST", 0, NoUser, b, "start"), createTodo_check(b), "insert")

createTodo_run(r) ==
  /\ r.pc = "insert"
  /\ \E fault \in Faults : \E t \in {now, now + 1} :
       LET res == SqlInsert(fault, todos, nextId, r.body, t)
           ok == res.err = NoErr
       IN /\ Clock(t)
          /\ todos' = res.tbl
          /\ nextId' = IF ok THEN nextId + 1 ELSE nextId
          /\ now' = IF ok THEN t ELSE now
          /\ writer' = IF ok THEN [j \in DOMAIN writer \cup {res.lastID} |->
                                    IF j = res.lastID THEN r.rid ELSE writer[j]]
                        ELSE writer
          /\ SettleAs(r, [r EXCEPT !.lastID = res.lastID], createTodo_cb(res.err),
                      res.err, "get")
  /\ UNCHANGED <<reqCount, acked>>

createTodo_get(r) ==
  /\ r.method = "POST" /\ r.pc = "get"
  /\ \E fault \in Faults : Settle(r, createTodo_cb2(fault, todos, r.lastID), fault, "done")
  /\ UNCHANGED <<todos, nextId, now, reqCount, writer, acked>>

\* ------------------------------------------------------------------ updateTodo
\* the callback without its this.changes === 0 branch
updateTodo_cb_NoChanges(err, changes) ==
  IF err # NoErr THEN <<Respond(500, ErrorBody(err))>>
  ELSE <<IssueDb>>

updateTodo_cb(err, changes) ==
  IF err # NoErr THEN <<Respond(500, ErrorBody(err))>>
  ELSE IF changes = 0 THEN <<Respond(404, ErrorBody("Todo not found"))>>
  ELSE <<IssueDb>>

updateTodo_cb2(err, tbl, i) ==
  IF err # NoErr THEN <<Respond(500, ErrorBody(err))>>
  ELSE <<Respond(200, RowBody(tbl, i))>>

updateTodo(i, b) ==
  Start(Request(reqCount + 1, "PUT", i, NoUser, b, "start"), <<IssueDb>>, "update")

updateTodo_run(r) ==
  /\ r.pc = "update"
  /\ \E fault \in Faults : \E t \in {now, now + 1} :
       LET res == SqlUpdate(fault, todos, r.id, r.body, t)
       IN /\ Clock(t)
          /\ todos' = res.tbl
          /\ now' = IF res.changes > 0 THEN t ELSE now
          /\ writer' = IF res.changes > 0 THEN [writer EXCEPT ![r.id] = r.rid] ELSE writer
          /\ Settle(r, updateTodo_cb(res.err, res.changes), res.err, "get")
  /\ UNCHANGED <<nextId, reqCount, acked>>

updateTodo_get(r) ==
  /\ r.method = "PUT" /\ r.pc = "get"
  /\ \E fault \in Faults :
       /\ Settle(r, updateTodo_cb2(fault, todos, r.id), fault, "done")
       /\ acked' = IF last'.status = 200 /\ r.body.completed \in {"true", "false"}
                   THEN [j \in DOMAIN acked \cup {r.id} |->
                           IF j = r.id THEN [rid |-> r.rid, completed |-> r.body.completed]
                           ELSE acked[j]]
                   ELSE acked
  /\ UNCHANGED <<todos, nextId, now, reqCount, writer>>

\* ------------------------------------------------------------------ deleteTodo
deleteTodo_cb(err, changes) ==
  IF err # NoErr THEN <<Respond(500, ErrorBody(err))>>
  ELSE IF changes = 0 THEN <<Respond(404, ErrorBody("Todo not found"))>>
  ELSE <<Respond(200, MessageBody("Todo deleted successfully"))>>

deleteTodo(i) ==
  Start(Request(reqCount + 1, "DELETE", i, NoUser, EmptyBody, "start"), <<IssueDb>>, "delete")

deleteTodo_run(r) ==
  /\ r.pc = "delete"
  /\ \E fault \in Faults :
       LET res == SqlDelete(fault, todos, r.id)
       IN /\ todos' = res.tbl
          /\ writer' = IF res.changes > 0 THEN [writer EXCEPT ![r.id] = r.rid] ELSE writer
          /\ Settle(r, deleteTodo_cb(res.err, res.changes), res.err, "done")
  /\ UNCHANGED <<nextId, now, reqCount, acked>>

\* ------------------------------------------------------------------ the API
ApiInit ==
  /\ todos = SampleTodos
  /\ nextId = Cardinality(DOMAIN SampleTodos) + 1
  /\ now = 0
  /\ inflight = {}
  /\ last = NoRequest
  /\ reqCount = 0
  /\ writer = [i \in DOMAIN SampleTodos |-> 0]
  /\ acked = <<>>

ApiNext ==
  \/ \E u \in UserQueries : getAllTodos(u)
  \/ \E i \in ReqIds : getTodoById(i)
  \/ \E b \in PostBodies : createTodo(b)
  \/ \E i \in ReqIds : \E b \in PutBodies : updateTodo(i, b)
  \/ \E i \in ReqIds : deleteTodo(i)
  \/ \E r \in inflight : getAllTodos_all(r)
  \/ \E r \in inflight : getTodoById_get(r)
  \/ \E r \in inflight : createTodo_run(r)
  \/ \E r \in inflight : createTodo_get(r)
  \/ \E r \in inflight : updateTodo_run(r)
  \/ \E r \in inflight : updateTodo_get(r)
  \/ \E r \in inflight : deleteTodo_run(r)

apiVars == <<todos, nextId, now, inflight, last, reqCount, writer, acked>>

\* ------------------------------------------------------------------ server_monitor.sh
\* refreshes of the monitor in one run
MaxSleeps == 2

\* sleep 30
SleepSeconds == 30

VARIABLES
  monPc,      \* where the script is: main's sections, "sleep", or "exited"
  serverPy,   \* src/server.py is a file of the current directory
  todoApp,    \* todo-app is a directory of the current directory
  monReport,  \* the statuses the last section of the running refresh printed
  refreshes,  \* calls of main that returned
  sleeps,     \* sleeps done
  slept,      \* seconds slept
  monExit     \* the script's exit status, -1 while it runs

monVars == <<monPc, serverPy, todoApp, monReport, refreshes, sleeps, slept, monExit>>

\* [ ! -f src/server.py ] || [ ! -d todo-app ] with the negations dropped from the second test
WrongDirectory_Negated(sp, ta) == ~sp \/ ta

\* [ ! -f "src/server.py" ] || [ ! -d "todo-app" ]
WrongDirectory(sp, ta) == ~sp \/ ~ta

\* print_status of a file test
FileLine(exists) == IF exists THEN "OK" ELSE "ERROR"

\* a port section: the port listens and its URL answers, the port listens and
\* the URL does not answer (down is the status printed then), no listener
PortLine(listening, http, down) ==
  IF listening THEN (IF http THEN "OK" ELSE down) ELSE "ERROR"

\* the ngrok section: the tunnel's public URL is found and answers 200
NgrokLine(listening, url, external) ==
  IF ~listening THEN "ERROR"
  ELSE IF ~url THEN "WARNING"
  ELSE IF external THEN "OK" ELSE "ERROR"

\* an integration test: it cannot run, or the response matches the pattern
TestLine(canTest, matches) ==
  IF ~canTest THEN "WARNING" ELSE IF matches THEN "OK" ELSE "ERROR"

\* a resource line: the variable is set, the process count is positive
ResourceLine(present) == IF present THEN "OK" ELSE "WARNING"

\* main: clear, the header, and the directory check
MonCheckDir ==
  /\ monPc = "main"
  /\ IF WrongDirectory(serverPy, todoApp)
     THEN monPc' = "exited" /\ monExit' = 1
     ELSE monPc' = "structure" /\ monExit' = monExit
  /\ monReport' = <<>>
  /\ UNCHANGED <<serverPy, todoApp, refreshes, sleeps, slept>>

\* main: Project Structure Check (server.js, App.jsx, server.py)
MonStructure ==
  /\ monPc = "structure"
  /\ \E serverJs, appJsx \in BOOLEAN :
       monReport' = <<FileLine(serverJs /\ todoApp), FileLine(appJsx /\ todoApp),
                      FileLine(serverPy)>>
  /\ monPc' = "ports"
  /\ UNCHANGED <<serverPy, todoApp, refreshes, sleeps, slept, monExit>>

\* main: Port Status Check (backend 3001, frontend 3000, automation 8000, ngrok 4040)
MonPorts ==
  /\ monPc = "ports"
  /\ \E b, bh, f, fh, a, ah \in BOOLEAN : \E n, url, ext \in BOOLEAN :
       monReport' = <<PortLine(b, bh, "ERROR"), PortLine(f, fh, "WARNING"),
                      PortLine(a, ah, "ERROR"), NgrokLine(n, url, ext)>>
  /\ monPc' = "tests"
  /\ UNCHANGED <<serverPy, todoApp, refreshes, sleeps, slept, monExit>>

\* main: Integration Tests (frontend-backend, webhook) and System Resources
\* (virtual environment, node processes, python processes)
MonTests ==
  /\ monPc = "tests"
  /\ \E both, list, a, hook \in BOOLEAN : \E venv, node, python \in BOOLEAN :
       monReport' = <<TestLine(both, list), TestLine(a, hook),
                      ResourceLine(venv), ResourceLine(node), ResourceLine(python)>>
  /\ monPc' = "footer"
  /\ UNCHANGED <<serverPy, todoApp, refreshes, sleeps, slept, monExit>>

\* main: the URLs, the commands, "Auto-refresh in 30 seconds"; main returns
MonReturn ==
  /\ monPc = "footer"
  /\ refreshes' = refreshes + 1
  /\ monPc' = "sleep"
  /\ UNCHANGED <<serverPy, todoApp, monReport, sleeps, slept, monExit>>

\* while true; do sleep 30; main; done
MonSleep ==
  /\ monPc = "sleep"
  /\ sleeps < MaxSleeps
  /\ sleeps' = sleeps + 1
  /\ slept' = slept + SleepSeconds
  /\ monPc' = "main"
  /\ UNCHANGED <<serverPy, todoApp, monReport, refreshes, monExit>>

\* the directory changes under the script
MonEnv ==
  /\ \E sp, ta \in BOOLEAN : serverPy' = sp /\ todoApp' = ta
  /\ UNCHANGED <<monPc, monReport, refreshes, sleeps, slept, monExit>>

MonStep ==
  \/ MonCheckDir
  \/ MonStructure
  \/ MonPorts
  \/ MonTests
  \/ MonReturn
  \/ MonSleep

\* the script not started, in the project's directory
MonIdle ==
  /\ monPc = "main"
  /\ serverPy = TRUE
  /\ todoApp = TRUE
  /\ monReport = <<>>
  /\ refreshes = 0
  /\ sleeps = 0
  /\ slept = 0
  /\ monExit = -1

\* the script started in any directory
MonInit ==
  /\ monPc = "main"
  /\ serverPy \in BOOLEAN
  /\ todoApp \in BOOLEAN
  /\ monReport = <<>>
  /\ refreshes = 0
  /\ sleeps = 0
  /\ slept = 0
  /\ monExit = -1

\* ------------------------------------------------------------------ send_webhook
\* calls of send_webhook in one run of the simulator
MaxCalls == 3

\* generate_issue_key: RANDOM % 999 + 100
KeyNumbers == {100, 1098}

\* what curl -s hands back, as the words of the response; nothing when the
\* server is down
WebhookResponses ==
  { <<>>, <<"status", "accepted">>, <<"error", "rejected">>, <<"not", "accepted", "twice">> }
StatusResponses == { <<>>, <<"status", "completed">>, <<"status", "processing">> }

VARIABLES
  hookPc,     \* where send_webhook is: "idle", "post", "grep", "sleep", "status",
              \* "report", "returned"
  hookKey,    \* $issue_key
  hookSent,   \* the requests this call has sent, in order
  hookResp,   \* $response
  hookStatus, \* $status_response
  hookOut,    \* the status lines this call has printed
  hookRet,    \* the call's return value, -1 while it runs
  hookCalls   \* calls made so far

hookVars == <<hookPc, hookKey, hookSent, hookResp, hookStatus, hookOut, hookRet, hookCalls>>

\* grep -q word on a response
Contains(resp, word) == \E k \in DOMAIN resp : resp[k] = word

\* the test as [ -n "$response" ]
Accepted_NonEmpty(resp) == resp # <<>>

\* echo "$response" | grep -q "accepted"
Accepted(resp) == Contains(resp, "accepted")

HookPost == [method |-> "POST", path |-> "/webhook/jira", key |-> 0]
HookGet(key) == [method |-> "GET", path |-> "/status/", key |-> key]

\* a scenario calls send_webhook with a generated key
HookCall ==
  /\ hookPc \in {"idle", "returned"}
  /\ hookCalls < MaxCalls
  /\ hookCalls' = hookCalls + 1
  /\ \E k \in KeyNumbers : hookKey' = k
  /\ hookPc' = "post"
  /\ hookSent' = <<>> /\ hookResp' = <<>> /\ hookStatus' = <<>> /\ hookOut' = <<>>
  /\ hookRet' = -1

\* local response=$(curl -s -X POST http://localhost:8000/webhook/jira ...)
HookSend ==
  /\ hookPc = "post"
  /\ hookSent' = Append(hookSent, HookPost)
  /\ \E resp \in WebhookResponses : hookResp' = resp
  /\ hookPc' = "grep"
  /\ UNCHANGED <<hookKey, hookStatus, hookOut, hookRet, hookCalls>>

\* if echo "$response" | grep -q "accepted"; then ... else ...; return 1
HookGrep ==
  /\ hookPc = "grep"
  /\ IF Accepted(hookResp)
     THEN /\ hookOut' = Append(hookOut, "Webhook sent successfully")
          /\ hookPc' = "sleep"
          /\ hookRet' = hookRet
     ELSE /\ hookOut' = Append(hookOut, "Failed to send webhook")
          /\ hookPc' = "returned"
          /\ hookRet' = 1
  /\ UNCHANGED <<hookKey, hookSent, hookResp, hookStatus, hookCalls>>

\* sleep 2
HookSleep ==
  /\ hookPc = "sleep"
  /\ hookPc' = "status"
  /\ UNCHANGED <<hookKey, hookSent, hookResp, hookStatus, hookOut, hookRet, hookCalls>>

\* local status_response=$(curl -s "http://localhost:8000/status/$issue_key")
HookCheck ==
  /\ hookPc = "status"
  /\ hookSent' = Append(hookSent, HookGet(hookKey))
  /\ \E resp \in StatusResponses : hookStatus' = resp
  /\ hookPc' = "report"
  /\ UNCHANGED <<hookKey, hookResp, hookOut, hookRet, hookCalls>>

\* if echo "$status_response" | grep -q "completed"; ...; return 0
HookReport ==
  /\ hookPc = "report"
  /\ hookOut' = Append(hookOut, IF Contains(hookStatus, "completed")
                                THEN "Automation completed successfully"
                                ELSE "Automation still processing or failed")
  /\ hookRet' = 0
  /\ hookPc' = "returned"
  /\ UNCHANGED <<hookKey, hookSent, hookResp, hookStatus, hookCalls>>

HookInit ==
  /\ hookPc = "idle"
  /\ hookKey = 0
  /\ hookSent = <<>>
  /\ hookResp = <<>>
  /\ hookStatus = <<>>
  /\ hookOut = <<>>
  /\ hookRet = -1
  /\ hookCalls = 0

\* ------------------------------------------------------------------ text
\* A text is the sequence of its characters; NoText is a field that is null.
NoText == <<NULL>>

\* the text of a word over the letters used here
Chars == {"a", "A", "b"}

\* String.prototype.toLowerCase, character by character
ToLowerChar(c) ==
  CASE c = "A" -> "a"
    [] c = "B" -> "b"
    [] OTHER -> c

toLowerCase(s) == [k \in DOMAIN s |-> ToLowerChar(s[k])]

\* String.prototype.includes: t occurs in s at some offset
includes(s, t) == \E k \in 0..(Len(s) - Len(t)) : SubSeq(s, k + 1, k + Len(t)) = t

\* JavaScript truthiness of a text field: neither null nor the empty string
TruthyText(s) == s # NoText /\ s # <<>>

\* the texts of at most n characters
TextsUpTo(n) == UNION {[1..k -> Chars] : k \in 0..n}

\* ------------------------------------------------------------------ the search App
\* characters of a search term
MaxTerm == 2
\* todos in the list the search App holds
MaxList == 2

SearchTodo(i, ti, de) == [id |-> i, title |-> ti, description |-> de]

\* the todos the server returns to the search App
SearchTodos ==
  { SearchTodo(1, <<"A", "b">>, NoText),
    SearchTodo(2, <<"b">>, <<"B", "a">>),
    SearchTodo(3, <<"a">>, <<>>) }

SearchLists == UNION {[1..k -> SearchTodos] : k \in 0..MaxList}

VARIABLES
  sTodos,      \* useState([]): todos
  sLoading,    \* useState(true): loading
  searchTerm,  \* useState(''): searchTerm
  shown,       \* the todos the last render put on the page
  sLastOp      \* history: the event handled last

searchVars == <<sTodos, sLoading, searchTerm, shown, sLastOp>>

\* the filter that compares the lower-cased texts with the term as typed
filteredTodos_TermAsTyped(list, term) ==
  SelectSeq(list, LAMBDA todo :
    \/ includes(toLowerCase(todo.title), term)
    \/ (TruthyText(todo.description) /\ includes(toLowerCase(todo.description), term)))

\* todos.filter(todo => todo.title.toLowerCase().includes(searchTerm.toLowerCase())
\*   || (todo.description && todo.description.toLowerCase().includes(...)))
filteredTodos(list, term) ==
  SelectSeq(list, LAMBDA todo :
    \/ includes(toLowerCase(todo.title), toLowerCase(term))
    \/ (TruthyText(todo.description)
          /\ includes(toLowerCase(todo.description), toLowerCase(term))))

\* the render: "Loading todos..." while loading, else the filtered list
SearchRender(list, loading, term) == IF loading THEN <<>> ELSE filteredTodos(list, term)

\* fetchTodos: the response's list becomes the state and loading ends
SearchFetch ==
  /\ sLoading
  /\ \E data \in SearchLists :
       /\ sTodos' = data
       /\ shown' = SearchRender(data, FALSE, searchTerm)
  /\ sLoading' = FALSE
  /\ sLastOp' = "fetch"
  /\ UNCHANGED searchTerm

\* SearchBar's input: onChange={(e) => onSearchChange(e.target.value)}
handleSearchChange(term) ==
  /\ ~sLoading
  /\ searchTerm' = term
  /\ shown' = SearchRender(sTodos, sLoading, term)
  /\ sLastOp' = "type"
  /\ UNCHANGED <<sTodos, sLoading>>

\* SearchBar's clear button, rendered when searchTerm is not empty:
\* onClick={() => onSearchChange('')}
SearchClear ==
  /\ ~sLoading
  /\ searchTerm # <<>>
  /\ searchTerm' = <<>>
  /\ shown' = SearchRender(sTodos, sLoading, <<>>)
  /\ sLastOp' = "clear"
  /\ UNCHANGED <<sTodos, sLoading>>

SearchInit ==
  /\ sTodos = <<>>
  /\ sLoading = TRUE
  /\ searchTerm = <<>>
  /\ shown = <<>>
  /\ sLastOp = "mount"

\* ------------------------------------------------------------------ CSV export
\* A CSV text is a sequence whose elements are the characters that matter to
\* CSV (the quote, the comma, the line break) and words: runs of other characters.
Quote == "\""
Comma == ","
Newline == "\n"

\* todos in the list handed to the exporters
MaxExport == 2

ExportTodo(ti, de, pr, ca, co, cr) ==
  [title |-> ti, description |-> de, priority |-> pr, category |-> ca,
   completed |-> co, created_at |-> cr]

\* todos as GET /api/todos returns them: plain, with a description and a
\* category of their own, with quotes and a comma in the title, with a null
\* priority and an unreadable date
ExportTodos ==
  { ExportTodo(<<"Buy milk">>, NoText, <<"medium">>, <<"general">>, "0", "2026-01-01 10:00:00"),
    ExportTodo(<<"Pay rent">>, <<"monthly">>, <<"high">>, <<"home">>, "1", "2026-01-02 10:00:00"),
    ExportTodo(<<"say ", Quote, "hi", Quote, Comma, " twice">>, <<>>, <<"low">>, <<"general">>,
               "0", "2026-01-01 10:00:00"),
    ExportTodo(<<"Call">>, <<"a", Comma, "b">>, NoText, <<"work">>, "1", "never") }

ExportLists == UNION {[1..k -> ExportTodos] : k \in 0..MaxExport}

\* Array.prototype.join
RECURSIVE Join(_, _)
Join(parts, sep) ==
  IF parts = <<>> THEN <<>>
  ELSE IF Len(parts) = 1 THEN parts[1]
  ELSE parts[1] \o sep \o Join(Tail(parts), sep)

\* join writes a null element as the empty string
JoinItem(s) == IF s = NoText THEN <<>> ELSE s

\* s.replace(/"/g, '""')
RECURSIVE DoubleQuotes(_)
DoubleQuotes(s) ==
  IF s = <<>> THEN <<>>
  ELSE (IF Head(s) = Quote THEN <<Quote, Quote>> ELSE <<Head(s)>>) \o DoubleQuotes(Tail(s))

\* s || d on a text
OrText(s, d) == IF TruthyText(s) THEN s ELSE d

\* todo.completed ? 'Yes' : 'No' on the integer SQLite stores
YesNo(co) == IF co = "1" THEN <<"Yes">> ELSE <<"No">>

\* new Date(created_at).toLocaleDateString()
DateString(cr) ==
  CASE cr = "2026-01-01 10:00:00" -> <<"1/1/2026">>
    [] cr = "2026-01-02 10:00:00" -> <<"1/2/2026">>
    [] OTHER -> <<"Invalid Date">>

\* `"${s}"`: the template writes null as the word null, which NoText is
Quoted(s) == <<Quote>> \o s \o <<Quote>>

ButtonHeaders ==
  << <<"Title">>, <<"Description">>, <<"Priority">>, <<"Category">>, <<"Completed">>,
     <<"Created Date">> >>

ModalHeaders == << <<"Title">>, <<"Priority">>, <<"Completed">>, <<"Created Date">> >>

\* ExportButton: [headers.join(','), ...todos.map(todo => [...].join(','))].join('\n')
ExportButton_csvContent(list) ==
  Join(<<Join(ButtonHeaders, <<Comma>>)>> \o
       [k \in DOMAIN list |->
          Join(<< Quoted(DoubleQuotes(OrText(list[k].title, <<>>))),
                  Quoted(DoubleQuotes(OrText(list[k].description, <<>>))),
                  OrText(list[k].priority, <<"medium">>),
                  OrText(list[k].category, <<"general">>),
                  YesNo(list[k].completed),
                  DateString(list[k].created_at) >>, <<Comma>>)],
       <<Newline>>)

\* ExportModal: the same with four columns and the title between quotes as it is
ExportModal_csvContent(list) ==
  Join(<<Join(ModalHeaders, <<Comma>>)>> \o
       [k \in DOMAIN list |->
          Join(<< Quoted(list[k].title),
                  JoinItem(list[k].priority),
                  YesNo(list[k].completed),
                  DateString(list[k].created_at) >>, <<Comma>>)],
       <<Newline>>)

VARIABLES
  xTodos,           \* the todos prop of ExportButton and ExportModal
  showExportModal,  \* useState(false): showExportModal
  csvContent,       \* the text of the last file downloaded, <<>> before any
  exporter,         \* history: the component that made it, "none" before any
  exported,         \* history: the list it was made from
  xAlerts           \* 'No todos to export!' alerts shown, 0 or 1: the last click's

exportVars == <<xTodos, showExportModal, csvContent, exporter, exported, xAlerts>>

\* the App renders with another list
ExportProps ==
  /\ \E list \in ExportLists : xTodos' = list
  /\ UNCHANGED <<showExportModal, csvContent, exporter, exported, xAlerts>>

\* what an exporter does with its list: the alert, or the download
ExportDownload(by, content) ==
  IF Len(xTodos) = 0
  THEN xAlerts' = 1 /\ UNCHANGED <<csvContent, exporter, exported>>
  ELSE /\ csvContent' = content
       /\ exporter' = by
       /\ exported' = xTodos
       /\ xAlerts' = 0

\* ExportButton's button
ExportButton_exportToCSV ==
  /\ ExportDownload("ExportButton", ExportButton_csvContent(xTodos))
  /\ UNCHANGED <<xTodos, showExportModal>>

\* the App's Export Options button
ExportOptions ==
  /\ showExportModal' = TRUE
  /\ UNCHANGED <<xTodos, csvContent, exporter, exported, xAlerts>>

\* ExportModal's Export as CSV button: an empty list returns before onClose()
ExportModal_exportToCSV ==
  /\ showExportModal
  /\ ExportDownload("ExportModal", ExportModal_csvContent(xTodos))
  /\ showExportModal' = (Len(xTodos) = 0)
  /\ UNCHANGED xTodos

\* ExportModal's Cancel button and overlay: onClose
ExportModal_onClose ==
  /\ showExportModal
  /\ showExportModal' = FALSE
  /\ UNCHANGED <<xTodos, csvContent, exporter, exported, xAlerts>>

ExportInit ==
  /\ xTodos = <<>>
  /\ showExportModal = FALSE
  /\ csvContent = <<>>
  /\ exporter = "none"
  /\ exported = <<>>
  /\ xAlerts = 0

\* ------------------------------------------------------------------ PUT against PUT
VARIABLES
  answered    \* history: the requests answered so far, as they were answered

putVars == <<answered>>

\* the step's answer, if it gives one, is kept
KeepAnswer == answered' = IF last'.rid # last.rid THEN answered \cup {last'} ELSE answered

PutInit == answered = {}

\* ------------------------------------------------------------------ the React App
\* adds and toggles the user starts in one run
MaxOps == 2

\* what the user types into the new-todo input
NewTodoTexts == {"", " ", "Buy milk"}

\* newTodo.trim()
trim(text) == IF text = " " THEN "" ELSE text

\* how a fetch ends for the client: a response whose body parses, or an
\* exception (the server is not reachable, or the body is not JSON)
Threw == [op |-> "threw", status |-> 0, resp |-> NoBody]

\* response.ok
ResponseOk(ans) == ans.op = "respond" /\ ans.status >= 200 /\ ans.status <= 299

\* response.json(): an empty body does not parse
JsonThrows(ans) == ans.op = "threw" \/ (ans.resp.kind = "row" /\ ans.resp.rows = <<>>)

\* the server's answer to POST /api/todos, its statements run one after the other
\* with no other request between them, and the table it leaves
ServerPost(fault, fault2, tbl, nid, b, t) ==
  LET res == SqlInsert(fault, tbl, nid, b, t) IN
  IF createTodo_check(b)[1].op = "respond"
  THEN [tbl |-> tbl, ans |-> createTodo_check(b)[1]]
  ELSE IF createTodo_cb(res.err)[1].op = "respond"
  THEN [tbl |-> res.tbl, ans |-> createTodo_cb(res.err)[1]]
  ELSE [tbl |-> res.tbl, ans |-> createTodo_cb2(fault2, res.tbl, res.lastID)[1]]

\* the same for PUT /api/todos/:id
ServerPut(fault, fault2, tbl, i, b, t) ==
  LET res == SqlUpdate(fault, tbl, i, b, t) IN
  IF updateTodo_cb(res.err, res.changes)[1].op = "respond"
  THEN [tbl |-> res.tbl, ans |-> updateTodo_cb(res.err, res.changes)[1]]
  ELSE [tbl |-> res.tbl, ans |-> updateTodo_cb2(fault2, res.tbl, i)[1]]

VARIABLES
  aTodos,     \* useState([]): todos, as the JSON value it holds
  aLoading,   \* useState(true): loading
  newTodo,    \* useState(''): newTodo
  aFetch,     \* fetchTodos of the mount effect: "pending" or "done"
  aOps,       \* the calls of addTodo and toggleTodo that await their response,
              \* each with the todos of the render it was made in, its number
              \* and (history) the numbers of the calls it overlaps
  aStarted,   \* calls of addTodo and toggleTodo that sent a request
  aDone       \* history: the calls whose response was OK, in the order processed

appVars == <<aTodos, aLoading, newTodo, aFetch, aOps, aStarted, aDone>>

\* the page is on the screen: not loading, and todos.map did not throw
Rendered == ~aLoading /\ aTodos.kind = "list"

\* fetchTodos with setLoading(false) at the end of the try block
fetchTodos_NoFinally(ans, cur) ==
  [todos |-> IF JsonThrows(ans) THEN cur ELSE ans.resp, loading |-> JsonThrows(ans)]

\* fetchTodos: setTodos(await response.json()) whatever the status, nothing when
\* fetch or json() throws, and setLoading(false) in the finally block
fetchTodos(ans, cur) ==
  [todos |-> IF JsonThrows(ans) THEN cur ELSE ans.resp, loading |-> FALSE]

\* the response to the mount effect's GET /api/todos arrives
AppFetchDone ==
  /\ aFetch = "pending"
  /\ \E ans \in {FirstRespond(getAllTodos_cb(fault, [k \in DOMAIN rs |-> todos[rs[k]]])) :
                   fault \in Faults, rs \in SelectByUser(todos, DefaultUser)} \cup {Threw} :
       /\ aTodos' = fetchTodos(ans, aTodos).todos
       /\ aLoading' = fetchTodos(ans, aTodos).loading
  /\ aFetch' = "done"
  /\ UNCHANGED <<newTodo, aOps, aStarted, aDone, apiVars>>

\* onChange={(e) => setNewTodo(e.target.value)}
setNewTodo(text) ==
  /\ Rendered
  /\ newTodo' = text
  /\ UNCHANGED <<aTodos, aLoading, aFetch, aOps, aStarted, aDone, apiVars>>

\* a call of addTodo or toggleTodo in flight
AppOp(kind, i, b) ==
  [kind |-> kind, id |-> i, body |-> b, seen |-> aTodos, n |-> aStarted + 1,
   overlaps |-> {o.n : o \in aOps}]

AppSend(op) ==
  /\ aStarted < MaxOps
  /\ aOps' = aOps \cup {op}
  /\ aStarted' = aStarted + 1
  /\ UNCHANGED <<aTodos, aLoading, newTodo, aFetch, aDone, apiVars>>

\* addTodo up to its fetch: if (!newTodo.trim()) return; POST {title, priority}
addTodo ==
  /\ Rendered
  /\ trim(newTodo) # ""
  /\ AppSend(AppOp("add", 0, [EmptyBody EXCEPT !.title = newTodo, !.priority = "medium"]))

\* toggleTodo up to its fetch: the checkbox of a todo on the page, PUT {completed}
toggleTodo(k) ==
  /\ Rendered
  /\ k \in DOMAIN aTodos.rows
  /\ AppSend(AppOp("toggle", aTodos.rows[k].id,
                   [EmptyBody EXCEPT !.completed =
                      IF aTodos.rows[k].completed = "1" THEN "false" ELSE "true"]))

\* what the rest of a call does with its response; the todos it spreads or maps
\* are those of the render the call was made in
AppProcess(op, ans, list) ==
  IF ResponseOk(ans) /\ ~JsonThrows(ans)
  THEN /\ aTodos' = ListBody(list)
       /\ newTodo' = IF op.kind = "add" THEN "" ELSE newTodo
       /\ aDone' = Append(aDone, [kind |-> op.kind, id |-> ans.resp.rows[1].id,
                                  row |-> ans.resp.rows[1], n |-> op.n,
                                  overlaps |-> op.overlaps])
  ELSE UNCHANGED <<aTodos, newTodo, aDone>>

\* addTodo from its response on: if (response.ok) setTodos([todo, ...todos]),
\* setNewTodo('')
addTodo_response(op) ==
  /\ op.kind = "add"
  /\ \E fault, fault2 \in Faults :
       LET srv == ServerPost(fault, fault2, todos, nextId, op.body, now) IN
       /\ todos' = srv.tbl
       /\ nextId' = IF srv.tbl # todos THEN nextId + 1 ELSE nextId
       /\ AppProcess(op, srv.ans,
                     IF JsonThrows(srv.ans) THEN <<>> ELSE srv.ans.resp.rows \o op.seen.rows)
  /\ aOps' = aOps \ {op}
  /\ UNCHANGED <<aLoading, aFetch, aStarted, now, inflight, last, reqCount, writer, acked>>

\* toggleTodo from its response on: if (response.ok)
\* setTodos(todos.map(todo => todo.id === id ? updatedTodo : todo))
toggleTodo_response(op) ==
  /\ op.kind = "toggle"
  /\ \E fault, fault2 \in Faults :
       LET srv == ServerPut(fault, fault2, todos, op.id, op.body, now) IN
       /\ todos' = srv.tbl
       /\ AppProcess(op, srv.ans,
                     [k \in DOMAIN op.seen.rows |->
                        IF op.seen.rows[k].id = op.id THEN srv.ans.resp.rows[1]
                        ELSE op.seen.rows[k]])
  /\ aOps' = aOps \ {op}
  /\ UNCHANGED <<aLoading, aFetch, aStarted, nextId, now, inflight, last, reqCount, writer, acked>>

AppInit ==
  /\ aTodos = ListBody(<<>>)
  /\ aLoading = TRUE
  /\ newTodo = ""
  /\ aFetch = "pending"
  /\ aOps = {}
  /\ aStarted = 0
  /\ aDone = <<>>

\* ------------------------------------------------------------------ deleting in the App
\* The App with the delete button has the fetchTodos and addTodo of the App
\* above, word for word; its deleteTodo asks through window.confirm, which
\* blocks the page and the processing of responses until it is answered.
VARIABLES
  asking,     \* the id window.confirm is asking about, 0 when no dialog is open
  confirmed   \* history: the ids whose deletion the user has confirmed, in order

deleteVars == <<asking, confirmed>>

\* the Delete button of a todo on the page: window.confirm opens
deleteTodo_click(k) ==
  /\ Rendered /\ asking = 0 /\ aStarted < MaxOps
  /\ k \in DOMAIN aTodos.rows
  /\ asking' = aTodos.rows[k].id
  /\ UNCHANGED <<confirmed, appVars, apiVars>>

\* if (!window.confirm(...)) return
deleteTodo_declined ==
  /\ asking # 0
  /\ asking' = 0
  /\ UNCHANGED <<confirmed, appVars, apiVars>>

\* window.confirm returns true: fetch(.../api/todos/${id}, {method: 'DELETE'})
deleteTodo_confirmed ==
  /\ asking # 0
  /\ AppSend(AppOp("delete", asking, EmptyBody))
  /\ confirmed' = Append(confirmed, asking)
  /\ asking' = 0

\* deleteTodo from its response on: if (response.ok)
\* setTodos(todos.filter(todo => todo.id !== id)), the todos of the render the
\* button was clicked in
deleteTodo_response(op) ==
  /\ asking = 0 /\ op.kind = "delete"
  /\ \E fault \in Faults :
       LET res == SqlDelete(fault, todos, op.id)
           ans == deleteTodo_cb(res.err, res.changes)[1]
       IN /\ todos' = res.tbl
          /\ aTodos' = IF ResponseOk(ans)
                       THEN ListBody(SelectSeq(op.seen.rows, LAMBDA todo : todo.id # op.id))
                       ELSE aTodos
  /\ aOps' = aOps \ {op}
  /\ UNCHANGED <<aLoading, newTodo, aFetch, aStarted, aDone, deleteVars,
                 nextId, now, inflight, last, reqCount, writer, acked>>

DeleteInit == asking = 0 /\ confirmed = <<>>

\* ------------------------------------------------------------------ specifications
uiVars == <<searchVars, exportVars, appVars, deleteVars>>

vars == <<apiVars, monVars, hookVars, uiVars, putVars>>

UiInit == SearchInit /\ ExportInit /\ AppInit /\ DeleteInit

Init == ApiInit /\ MonIdle /\ HookInit /\ UiInit /\ PutInit

\* the todo API, the scripts at rest
Next == ApiNext /\ UNCHANGED <<monVars, hookVars, uiVars, putVars>>

Spec == Init /\ [][Next]_vars

\* the monitor script in a directory that changes under it
MonNext ==
  \/ MonCheckDir /\ UNCHANGED <<apiVars, hookVars, uiVars, putVars>>
  \/ MonStructure /\ UNCHANGED <<apiVars, hookVars, uiVars, putVars>>
  \/ MonPorts /\ UNCHANGED <<apiVars, hookVars, uiVars, putVars>>
  \/ MonTests /\ UNCHANGED <<apiVars, hookVars, uiVars, putVars>>
  \/ MonReturn /\ UNCHANGED <<apiVars, hookVars, uiVars, putVars>>
  \/ MonSleep /\ UNCHANGED <<apiVars, hookVars, uiVars, putVars>>
  \/ MonEnv /\ UNCHANGED <<apiVars, hookVars, uiVars, putVars>>

InitMonitor == ApiInit /\ MonInit /\ HookInit /\ UiInit /\ PutInit

SpecMonitor == InitMonitor /\ [][MonNext]_vars

\* the webhook simulator's calls of send_webhook
HookNext ==
  \/ HookCall /\ UNCHANGED <<apiVars, monVars, uiVars, putVars>>
  \/ HookSend /\ UNCHANGED <<apiVars, monVars, uiVars, putVars>>
  \/ HookGrep /\ UNCHANGED <<apiVars, monVars, uiVars, putVars>>
  \/ HookSleep /\ UNCHANGED <<apiVars, monVars, uiVars, putVars>>
  \/ HookCheck /\ UNCHANGED <<apiVars, monVars, uiVars, putVars>>
  \/ HookReport /\ UNCHANGED <<apiVars, monVars, uiVars, putVars>>

SpecWebhook == Init /\ [][HookNext]_vars

\* the search App: the list arrives, the user types and clears
searchRest == <<apiVars, monVars, hookVars, exportVars, appVars, deleteVars, putVars>>

SearchNext ==
  \/ SearchFetch /\ UNCHANGED searchRest
  \/ (\E term \in TextsUpTo(MaxTerm) : handleSearchChange(term)) /\ UNCHANGED searchRest
  \/ SearchClear /\ UNCHANGED searchRest

SpecSearch == Init /\ [][SearchNext]_vars

\* the exporters of the React App
exportRest == <<apiVars, monVars, hookVars, searchVars, appVars, deleteVars, putVars>>

ExportNext ==
  \/ ExportProps /\ UNCHANGED exportRest
  \/ ExportButton_exportToCSV /\ UNCHANGED exportRest
  \/ ExportOptions /\ UNCHANGED exportRest
  \/ ExportModal_exportToCSV /\ UNCHANGED exportRest
  \/ ExportModal_onClose /\ UNCHANGED exportRest

SpecExport == Init /\ [][ExportNext]_vars

\* the server under PUT requests alone, with the answers kept
PutNext ==
  \/ (\E i \in ReqIds : \E b \in PutBodies : updateTodo(i, b))
       /\ KeepAnswer /\ UNCHANGED <<monVars, hookVars, uiVars>>
  \/ (\E r \in inflight : updateTodo_run(r))
       /\ KeepAnswer /\ UNCHANGED <<monVars, hookVars, uiVars>>
  \/ (\E r \in inflight : updateTodo_get(r))
       /\ KeepAnswer /\ UNCHANGED <<monVars, hookVars, uiVars>>

SpecPuts == Init /\ [][PutNext]_vars

\* the React App against the server, no other client; CURRENT_TIMESTAMP does not
\* advance during the run (the App does nothing with the rows' timestamps)
appRest == <<monVars, hookVars, searchVars, exportVars, deleteVars, putVars>>

AppNext ==
  \/ AppFetchDone /\ UNCHANGED appRest
  \/ (\E text \in NewTodoTexts : setNewTodo(text)) /\ UNCHANGED appRest
  \/ addTodo /\ UNCHANGED appRest
  \/ (\E k \in 1..Len(aTodos.rows) : toggleTodo(k)) /\ UNCHANGED appRest
  \/ (\E op \in aOps : addTodo_response(op)) /\ UNCHANGED appRest
  \/ (\E op \in aOps : toggleTodo_response(op)) /\ UNCHANGED appRest

SpecApp == Init /\ [][AppNext]_vars

\* the App with the delete button against the server, no other client
deleteRest == <<monVars, hookVars, searchVars, exportVars, putVars>>

DeleteNext ==
  \/ asking = 0 /\ AppFetchDone /\ UNCHANGED <<deleteVars, deleteRest>>
  \/ asking = 0 /\ (\E text \in NewTodoTexts : setNewTodo(text))
       /\ UNCHANGED <<deleteVars, deleteRest>>
  \/ asking = 0 /\ addTodo /\ UNCHANGED <<deleteVars, deleteRest>>
  \/ asking = 0 /\ (\E op \in aOps : addTodo_response(op))
       /\ UNCHANGED <<deleteVars, deleteRest>>
  \/ (\E k \in 1..Len(aTodos.rows) : deleteTodo_click(k)) /\ UNCHANGED deleteRest
  \/ deleteTodo_declined /\ UNCHANGED deleteRest
  \/ deleteTodo_confirmed /\ UNCHANGED deleteRest
  \/ (\E op \in aOps : deleteTodo_response(op)) /\ UNCHANGED deleteRest

SpecDelete == Init /\ [][DeleteNext]_vars

\* ------------------------------------------------------------------ steps
\* the request r, waiting at pc, runs its statement and callback in this step
Runs(r, pc) == r \in inflight /\ r.pc = pc /\ r \notin inflight'

\* this step answers a request (the one that becomes last)
Answers == last'.rid # last.rid

\* this step answers the waiting request r
AnswersTo(r) == Answers /\ last'.rid = r.rid

\* every row but row i is in tbl2 what it is in tbl
OthersKept(tbl, tbl2, i) ==
  \A j \in (DOMAIN tbl \cup DOMAIN tbl2) \ {i} :
     j \in DOMAIN tbl /\ j \in DOMAIN tbl2 /\ tbl2[j] = tbl[j]

\* ------------------------------------------------------------------ C1
\* C1: POST /api/todos whose title is missing, null or the empty string is
\* answered 400 by the handler itself, which queues no statement: the table and
\* the id sequence are after the request what they were before it.
C1_NoTitle400 ==
  [][ /\ \A r \in inflight' : r.method = "POST" => r.body.title \notin {UNDEF, NULL, ""}
      /\ (Answers /\ last'.method = "POST" /\ last'.body.title \in {UNDEF, NULL, ""})
           => (last'.status = 400 /\ last'.answers = 1 /\ todos' = todos /\ nextId' = nextId) ]_vars

C1_Witness ==
  /\ last.method = "POST" /\ last.body.title = NULL /\ last.status = 400
  /\ todos = SampleTodos

\* ------------------------------------------------------------------ C2
\* C2: when the statement of a PUT or DELETE runs for an id that has no row, the
\* request is answered in that step, with 404 unless the database itself failed,
\* and the table is left as it was.
C2_Missing404 ==
  [][ \A r \in inflight :
        ((Runs(r, "update") \/ Runs(r, "delete")) /\ r.id \notin DOMAIN todos)
          => /\ AnswersTo(r)
             /\ last'.status = 404 \/ last'.err # NoErr
             /\ todos' = todos ]_vars

C2_Witness ==
  /\ last.method = "PUT" /\ last.status = 404 /\ last.id \notin DOMAIN todos
  /\ last.body.title = "Renamed"

\* ------------------------------------------------------------------ C3
\* the todo i is the subject of a PUT {completed: c} that was answered 200 and
\* no PUT or DELETE on i has succeeded since that PUT's own UPDATE
Toggled(i) == i \in DOMAIN acked /\ writer[i] = acked[i].rid

\* completed = c as a stored row and a response show it
Stored(c) == IF c = "true" THEN "1" ELSE "0"

Columns == {"title", "description", "completed", "priority", "category", "due_date"}

\* C4: the UPDATE of a PUT changes no row but the addressed one, adds and removes
\* none, and in the addressed row a column whose field is absent or null in the
\* body keeps its value, a column whose field is supplied takes the bound value,
\* and id, created_at and user_id keep theirs; no other step of a PUT writes.
C4_PutFrame ==
  [][ \A r \in inflight : (r.method = "PUT" /\ r \notin inflight') =>
        /\ OthersKept(todos, todos', r.id)
        /\ r.id \in DOMAIN todos <=> r.id \in DOMAIN todos'
        /\ r.pc = "get" => todos' = todos
        /\ r.id \in DOMAIN todos =>
             /\ \A c \in Columns :
                  todos'[r.id][c] =
                    IF r.body[c] \in {UNDEF, NULL} \/ todos' = todos
                    THEN todos[r.id][c] ELSE Bind(r.body[c])
             /\ todos'[r.id].id = todos[r.id].id
             /\ todos'[r.id].created_at = todos[r.id].created_at
             /\ todos'[r.id].user_id = todos[r.id].user_id ]_vars

C4_Witness ==
  /\ last.method = "PUT" /\ last.status = 200
  /\ last.body.title = NULL /\ last.body.description = "note"
  /\ Len(last.resp.rows) = 1
  /\ last.resp.rows[1].title = "Build API"
  /\ last.resp.rows[1].description = "note"
  /\ last.resp.rows[1].priority = "high"
  /\ last.resp.rows[1].category = "work"
  /\ todos[1] = SampleTodos[1] /\ todos[2] = SampleTodos[2]

\* ------------------------------------------------------------------ C5
\* C5: a request whose statement failed is not left waiting: it has been
\* answered, with 500 and the database's message as the error; and no request
\* is answered twice (a waiting one not yet, an answered one once).
C5_SqlError500 ==
  /\ \A r \in inflight : r.err = NoErr /\ r.answers = 0
  /\ last.rid # 0 => last.answers = 1
  /\ last.err # NoErr => last.status = 500 /\ last.resp = ErrorBody(last.err)

C5_Witness ==
  /\ last.method = "POST" /\ last.err = IoErr /\ last.status = 500
  /\ last.lastID # 0

\* ------------------------------------------------------------------ C6
\* C6: every stored todo has a title that is not NULL.
C6_TitleNotNull == \A i \in DOMAIN todos : todos[i].title # NULL

C6_Witness ==
  /\ last.method = "PUT" /\ last.body.title = NULL /\ last.status = 200
  /\ \E i \in DOMAIN todos : i \notin DOMAIN SampleTodos

\* ------------------------------------------------------------------ C7
TitleOnly(b) ==
  /\ ~Falsy(b.title)
  /\ b = [EmptyBody EXCEPT !.title = b.title]

\* C7: the INSERT of a POST whose body holds only a non-empty title, unless the
\* database fails, stores under the next id a row with that title, priority
\* 'medium', category 'general' and completed 0, and changes no other row; the
\* request is then answered 201 unless its SELECT fails, and as long as no other
\* request has written the new row the body is that stored row.
C7_PostDefaults ==
  [][ \A r \in inflight : (r.method = "POST" /\ TitleOnly(r.body) /\ r \notin inflight') =>
        /\ r.pc = "insert" =>
             \/ AnswersTo(r) /\ last'.err # NoErr /\ todos' = todos
             \/ /\ ~Answers
                /\ \E r2 \in inflight' : r2.rid = r.rid /\ r2.pc = "get" /\ r2.lastID = nextId
                /\ nextId \notin DOMAIN todos /\ nextId \in DOMAIN todos'
                /\ todos'[nextId].title = r.body.title
                /\ todos'[nextId].priority = "medium"
                /\ todos'[nextId].category = "general"
                /\ todos'[nextId].completed = "0"
                /\ OthersKept(todos, todos', nextId)
        /\ r.pc = "get" =>
             /\ AnswersTo(r)
             /\ last'.status = 201 \/ last'.err # NoErr
             /\ (last'.status = 201 /\ writer[r.lastID] = r.rid) =>
                  /\ last'.resp = RowBody(todos, r.lastID)
                  /\ Len(last'.resp.rows) = 1
                  /\ last'.resp.rows[1].title = r.body.title
                  /\ last'.resp.rows[1].priority = "medium"
                  /\ last'.resp.rows[1].category = "general"
                  /\ last'.resp.rows[1].completed = "0" ]_vars

C7_Witness ==
  /\ last.method = "POST" /\ last.status = 201 /\ TitleOnly(last.body)
  /\ Len(last.resp.rows) = 1
  /\ last.resp.rows[1].title = "Buy milk"
  /\ last.resp.rows[1].priority = "medium"
  /\ last.resp.rows[1].completed = "0"
  /\ last.lastID \in DOMAIN todos /\ todos[last.lastID] = last.resp.rows[1]

\* ------------------------------------------------------------------ C8
\* C8: the statement of a DELETE for an id that has a row, unless the database
\* fails, removes that row and no other and the request is answered 200; an id
\* whose row is gone never has a row again, and GET /api/todos/:id and DELETE
\* for an id without a row are answered 404 unless the database fails.
C8_DeleteOnce ==
  [][ /\ \A r \in inflight : (Runs(r, "delete") /\ r.id \in DOMAIN todos) =>
           /\ AnswersTo(r)
           /\ \/ last'.err # NoErr /\ todos' = todos
              \/ /\ last'.status = 200
                 /\ r.id \notin DOMAIN todos'
                 /\ OthersKept(todos, todos', r.id)
      /\ \A i \in 1..(nextId - 1) : i \notin DOMAIN todos => i \notin DOMAIN todos'
      /\ \A r \in inflight :
           ((Runs(r, "delete") \/ Runs(r, "one")) /\ r.id \notin DOMAIN todos) =>
              AnswersTo(r) /\ (last'.status = 404 \/ last'.err # NoErr) ]_vars

C8_Witness ==
  /\ last.method \in {"DELETE", "GETID"} /\ last.status = 404
  /\ last.id \in DOMAIN SampleTodos /\ last.id \notin DOMAIN todos
  /\ DOMAIN todos = DOMAIN SampleTodos \ {last.id}
  /\ \A j \in DOMAIN todos : todos[j] = SampleTodos[j]

\* ------------------------------------------------------------------ C9
\* a refresh is under way
InMain == monPc \in {"main", "structure", "ports", "tests", "footer"}

\* the script's counters: the first refresh comes before any sleep and each
\* sleep of 30 seconds is followed by one refresh (a finished refresh has one
\* more refresh than sleeps, a running one as many); a script that has not
\* exited always has a next step, up to the run's last sleep
C9_Running ==
  /\ monPc = "exited" <=> monExit # -1
  /\ monPc = "sleep" => refreshes = sleeps + 1
  /\ InMain => refreshes = sleeps
  /\ slept = SleepSeconds * sleeps
  /\ (monPc # "exited" /\ ~(monPc = "sleep" /\ sleeps = MaxSleeps)) => ENABLED MonStep

\* C9: the script exits only from main's directory check, and only when
\* src/server.py or todo-app is missing at that moment; until then it refreshes
\* once at once and once more after every 30-second sleep, and never stops.
C9_NoExit ==
  /\ []C9_Running
  /\ [][ monPc' = "exited" => \/ monPc = "exited"
                              \/ monPc = "main" /\ ~(serverPy /\ todoApp) ]_vars

C9_Witness ==
  /\ monPc = "sleep" /\ sleeps = 2 /\ refreshes = 3 /\ serverPy /\ todoApp
  /\ slept = 60

\* ------------------------------------------------------------------ C10
\* C10: a call of send_webhook has sent nothing, or its one POST to
\* /webhook/jira, or that POST followed by one GET /status/<issue_key>; the GET
\* is sent only when the response to the POST contains 'accepted'; and the call
\* returns 0 with both sent exactly when it does, 1 with the POST alone when not.
C10_OnePost ==
  /\ hookSent \in {<<>>, <<HookPost>>, <<HookPost, HookGet(hookKey)>>}
  /\ hookPc \notin {"idle", "post"} => Len(hookSent) >= 1
  /\ Len(hookSent) = 2 => Contains(hookResp, "accepted")
  /\ hookPc = "returned" =>
       /\ hookRet \in {0, 1}
       /\ hookRet = 0 <=> Contains(hookResp, "accepted")
       /\ hookRet = 0 => hookSent = <<HookPost, HookGet(hookKey)>>
       /\ hookRet = 1 => hookSent = <<HookPost>>
  /\ hookPc # "returned" => hookRet = -1

C10_Witness ==
  /\ hookPc = "returned" /\ hookRet = 0 /\ hookCalls = 2
  /\ hookResp = <<"not", "accepted", "twice">>
  /\ hookSent = <<HookPost, HookGet(1098)>>

\* ------------------------------------------------------------------ C11
\* two characters that are one letter, whatever their case
SameLetter(a, b) == a = b \/ {a, b} \in {{"a", "A"}, {"b", "B"}}

\* t occurs in s, letter by letter, whatever the case
OccursIn(s, t) ==
  \E k \in 0..(Len(s) - Len(t)) : \A j \in 1..Len(t) : SameLetter(s[k + j], t[j])

\* the term is in the todo's title or, when it has one, in its description
TermIn(todo, term) ==
  \/ OccursIn(todo.title, term)
  \/ (todo.description # NoText /\ OccursIn(todo.description, term))

\* sub lists the entries of list at the positions M, in their order
SubListAt(sub, list, M) ==
  \E f \in [1..Len(sub) -> M] :
     /\ \A k \in M : \E j \in 1..Len(sub) : f[j] = k
     /\ \A j, l \in 1..Len(sub) : j < l => f[j] < f[l]
     /\ \A j \in 1..Len(sub) : sub[j] = list[f[j]]

\* C11: once the list is loaded, the todos on the page are the todos of the list
\* whose title or description contains the search term whatever the case, each
\* once and in the list's order; with the empty term they are the whole list;
\* and the clear button leaves the term empty.
C11_SearchFilter ==
  /\ ~sLoading =>
       /\ SubListAt(shown, sTodos, {k \in 1..Len(sTodos) : TermIn(sTodos[k], searchTerm)})
       /\ searchTerm = <<>> => shown = sTodos
  /\ sLastOp = "clear" => searchTerm = <<>> /\ shown = sTodos

C11_Witness ==
  /\ ~sLoading /\ sLastOp = "type" /\ searchTerm = <<"b", "A">>
  /\ sTodos = <<SearchTodo(1, <<"A", "b">>, NoText), SearchTodo(2, <<"b">>, <<"B", "a">>)>>
  /\ shown = <<SearchTodo(2, <<"b">>, <<"B", "a">>)>>

\* ------------------------------------------------------------------ C12
\* A CSV text read under the quoting rules of RFC 4180: the records, each the
\* sequence of its fields.  A field that opens with a quote runs to its closing
\* quote, a doubled quote inside it is one quote, and commas and line breaks
\* inside it are part of it.  k is the position read, q whether it is inside
\* quotes, field and row what has been read of the current field and record.
RECURSIVE ReadCsv(_, _, _, _, _)
ReadCsv(s, k, q, field, row) ==
  IF k > Len(s) THEN <<Append(row, field)>>
  ELSE IF q
  THEN IF s[k] # Quote THEN ReadCsv(s, k + 1, TRUE, Append(field, s[k]), row)
       ELSE IF k < Len(s) /\ s[k + 1] = Quote
            THEN ReadCsv(s, k + 2, TRUE, Append(field, Quote), row)
            ELSE ReadCsv(s, k + 1, FALSE, field, row)
  ELSE IF s[k] = Quote /\ field = <<>> THEN ReadCsv(s, k + 1, TRUE, field, row)
  ELSE IF s[k] = Comma THEN ReadCsv(s, k + 1, FALSE, <<>>, Append(row, field))
  ELSE IF s[k] = Newline THEN <<Append(row, field)>> \o ReadCsv(s, k + 1, FALSE, <<>>, <<>>)
  ELSE ReadCsv(s, k + 1, FALSE, Append(field, s[k]), row)

CsvRecords(s) == ReadCsv(s, 1, FALSE, <<>>, <<>>)

\* the record has the text as one of its fields; a null text asks for nothing
HasField(rec, text) == text = NoText \/ \E j \in DOMAIN rec : rec[j] = text

\* the record carries the todo's six details
Carries(rec, todo) ==
  /\ HasField(rec, todo.title)
  /\ HasField(rec, todo.description)
  /\ HasField(rec, todo.priority)
  /\ HasField(rec, todo.category)
  /\ HasField(rec, YesNo(todo.completed))
  /\ HasField(rec, DateString(todo.created_at))

\* the file made by the exporter by is a header row and one record for each
\* todo of the exported list, in the list's order, each with the todo's details
ExportIsComplete(by) ==
  exporter = by =>
    LET rows == CsvRecords(csvContent) IN
    /\ Len(exported) >= 1
    /\ Len(rows) = Len(exported) + 1
    /\ rows[1] \in {ButtonHeaders, ModalHeaders}
    /\ \A k \in DOMAIN exported : Carries(rows[k + 1], exported[k])

\* C12: every file downloaded, by ExportButton and by ExportModal alike, is a
\* header row followed by one record for each todo of the exported list, in list
\* order, and each record has that todo's title, description, priority,
\* category, completion status and creation date among its fields.
C12_ExportRows == ExportIsComplete("ExportButton") /\ ExportIsComplete("ExportModal")

\* ExportModal has exported a todo whose description is in no field of its record
C12_Witness ==
  /\ exporter = "ExportModal" /\ ~showExportModal
  /\ exported = <<ExportTodo(<<"Pay rent">>, <<"monthly">>, <<"high">>, <<"home">>, "1",
                             "2026-01-02 10:00:00")>>
  /\ CsvRecords(csvContent) =
       << ModalHeaders, << <<"Pay rent">>, <<"high">>, <<"Yes">>, <<"1/2/2026">> >> >>

\* the files of ExportButton alone are complete in that sense
C12_ExportButtonRows == ExportIsComplete("ExportButton")

\* ------------------------------------------------------------------ C13
\* C13: every stored todo has a priority that is not NULL and a category that
\* is not NULL.
C13_PriorityNotNull ==
  \A i \in DOMAIN todos : todos[i].priority # NULL /\ todos[i].category # NULL

\* a POST with "priority": null was answered 201 with the row as it is stored
C13_Witness ==
  /\ last.method = "POST" /\ last.status = 201 /\ last.body.priority = NULL
  /\ last.lastID \in DOMAIN todos /\ todos[last.lastID].priority = NULL
  /\ last.resp = RowBody(todos, last.lastID)

\* ------------------------------------------------------------------ C14
\* C14: a PUT answered 200 and a POST answered 201 have as their body one row,
\* the row of the updated or inserted id.
C14_BodyIsRow ==
  /\ (last.method = "PUT" /\ last.status = 200) =>
       Len(last.resp.rows) = 1 /\ last.resp.rows[1].id = last.id
  /\ (last.method = "POST" /\ last.status = 201) =>
       Len(last.resp.rows) = 1 /\ last.resp.rows[1].id = last.lastID

\* a PUT whose row a DELETE removed between its UPDATE and its SELECT
C14_Witness ==
  /\ last.method = "PUT" /\ last.status = 200 /\ last.resp = RowBody(todos, last.id)
  /\ last.resp.rows = <<>>
  /\ last.id \in DOMAIN writer /\ writer[last.id] # last.rid

\* ------------------------------------------------------------------ C15
\* C15: a POST answered with a status other than 201 has inserted no row: no row
\* of the table is one it wrote, and the id sequence has not moved for it.
C15_NoInsertOnError ==
  (last.method = "POST" /\ last.status # 201) =>
     /\ last.lastID = 0
     /\ \A i \in DOMAIN todos : writer[i] # last.rid

\* a POST answered 500 because its SELECT failed, its row in the table
C15_Witness ==
  /\ last.method = "POST" /\ last.status = 500 /\ last.resp = ErrorBody(IoErr)
  /\ last.lastID \in DOMAIN todos /\ writer[last.lastID] = last.rid
  /\ todos[last.lastID].title = last.body.title

\* ------------------------------------------------------------------ C16
\* C16: no stored todo has the empty string as its title.
C16_TitleNotEmpty == \A i \in DOMAIN todos : todos[i].title # ""

\* a PUT with "title": "" was answered 200 with the emptied title
C16_Witness ==
  /\ last.method = "PUT" /\ last.status = 200 /\ last.body.title = ""
  /\ Len(last.resp.rows) = 1 /\ last.resp.rows[1].title = ""
  /\ todos[last.id].title = ""

\* ------------------------------------------------------------------ C17
\* the fields a body has: the keys present in it, whatever their value
FieldsOf(b) == {c \in Columns : b[c] # UNDEF}

\* the fields a body gives a value to: the keys present and not null
ValuesOf(b) == {c \in Columns : b[c] \notin {UNDEF, NULL}}

\* two PUTs, and no other request, have been made and answered 200, on one todo
\* and with no field in common
DisjointPuts(r1, r2) ==
  /\ reqCount = 2 /\ inflight = {}
  /\ r1.rid # r2.rid /\ r1.id = r2.id
  /\ r1.status = 200 /\ r2.status = 200
  /\ FieldsOf(r1.body) \cap FieldsOf(r2.body) = {}

\* the row of the two PUTs' todo has c at the value the PUT that supplies c
\* (among the fields F of each body) gave it, as SQLite stores it, and every
\* other column, id, user_id and created_at as before the two PUTs
RowAfterPuts(r1, r2, F(_)) ==
  /\ r1.id \in DOMAIN todos
  /\ \A c \in Columns :
       todos[r1.id][c] =
         IF c \in F(r1.body) THEN Bind(r1.body[c])
         ELSE IF c \in F(r2.body) THEN Bind(r2.body[c])
         ELSE SampleTodos[r1.id][c]
  /\ todos[r1.id].id = r1.id
  /\ todos[r1.id].user_id = SampleTodos[r1.id].user_id
  /\ todos[r1.id].created_at = SampleTodos[r1.id].created_at

\* C17 as it is stated: after two PUTs on one existing todo with disjoint sets
\* of fields, in whichever order their statements ran, the row has every field
\* either body holds at the value given there, a null included, and is otherwise
\* the row as it was, so that it is one row in both orders save updated_at.
C17_DisjointPutsAllFields ==
  \A r1, r2 \in answered : DisjointPuts(r1, r2) => RowAfterPuts(r1, r2, FieldsOf)

\* C17, amended: the same for every field given a non-null value; a field given
\* as null keeps the value it had.
C17_DisjointPutsCommute ==
  \A r1, r2 \in answered : DisjointPuts(r1, r2) => RowAfterPuts(r1, r2, ValuesOf)

\* both PUTs answered 200 after the UPDATE of the PUT made second ran first
C17_Witness ==
  \E r1, r2 \in answered :
     /\ DisjointPuts(r1, r2) /\ r1.rid = 1 /\ writer[r1.id] = 1
     /\ r1.body.completed = "true" /\ r2.body.description = "note"
     /\ todos[r1.id].completed = "1" /\ todos[r1.id].description = "note"
     /\ todos[r1.id].category = "work" /\ todos[r1.id].title = SampleTodos[r1.id].title

\* ------------------------------------------------------------------ C18
\* two calls were answered OK, the second made while the first awaited its
\* response, and every response has been processed
BothProcessed(d1, d2) == aOps = {} /\ d1.n \in d2.overlaps

\* the call's effect is in the todos state: the todo it created is in the list;
\* the row it updated is the entry of that id, unless a call processed later
\* updated that todo again
Reflected(j) ==
  /\ aTodos.kind = "list"
  /\ aDone[j].kind = "add" =>
       \E k \in DOMAIN aTodos.rows : aTodos.rows[k].id = aDone[j].id
  /\ (aDone[j].kind = "toggle"
        /\ \A l \in DOMAIN aDone : (l > j) => aDone[l].id # aDone[j].id) =>
       \A k \in DOMAIN aTodos.rows :
          aTodos.rows[k].id = aDone[j].id => aTodos.rows[k] = aDone[j].row

\* C18: when an add or toggle was started before the response of an earlier one
\* was processed and both were answered OK, then once both responses have been
\* processed the todos state has both effects.
C18_BothReflected ==
  \A j1, j2 \in DOMAIN aDone :
     BothProcessed(aDone[j1], aDone[j2]) => Reflected(j1) /\ Reflected(j2)

\* two adds made from one render, both answered 201: the server has both rows,
\* the list only the one whose response came last
C18_Witness ==
  /\ aOps = {} /\ Len(aDone) = 2
  /\ aDone[1].kind = "add" /\ aDone[2].kind = "add" /\ aDone[1].n \in aDone[2].overlaps
  /\ aDone[1].id \in DOMAIN todos /\ aDone[2].id \in DOMAIN todos
  /\ \A k \in DOMAIN aTodos.rows : aTodos.rows[k].id # aDone[1].id
  /\ aTodos.rows[1].id = aDone[2].id

\* ------------------------------------------------------------------ C19
\* C19: the todos state is a list, of todo objects.
C19_TodosIsList ==
  /\ aTodos.kind = "list"
  /\ \A k \in DOMAIN aTodos.rows : aTodos.rows[k].id \in 1..(nextId - 1)

\* the GET was answered 500 and the error object is the todos state
C19_Witness ==
  /\ aFetch = "done" /\ ~aLoading
  /\ aTodos = ErrorBody(IoErr)

\* ------------------------------------------------------------------ C20
\* C20: loading is true from the start until the mount effect's fetch has
\* completed, false once it has, however it ended, and once false never true
\* again.
C20_LoadingOnce ==
  /\ [](aLoading <=> aFetch = "pending")
  /\ [][~aLoading => ~aLoading']_vars

\* the fetch threw (the list is still the empty initial one, the server's table
\* is not empty), loading is false and stays so through an add
C20_Witness ==
  /\ aFetch = "done" /\ ~aLoading
  /\ aTodos.kind = "list" /\ Len(aTodos.rows) = 1 /\ Len(aDone) = 1
  /\ Cardinality(DOMAIN todos) = Cardinality(DOMAIN SampleTodos) + 1

\* ------------------------------------------------------------------ C21
\* the todo with this id is in the client's list
InList(v, i) == \E k \in DOMAIN v.rows : v.rows[k].id = i

\* the user has confirmed the deletion of the todo with this id
WasConfirmed(c, i) == \E k \in DOMAIN c : c[k] = i

\* C21: a todo leaves the client's list only when the user has confirmed the
\* deletion of that todo; a step that answers the dialog without confirming
\* closes it, leaves the list as it is and sends no request; and a deletion is
\* confirmed only in the open dialog, for the todo it asks about, a todo of the
\* list.
C21_ConfirmedDelete ==
  [][ /\ \A i \in 1..nextId : (InList(aTodos, i) /\ ~InList(aTodos', i)) => WasConfirmed(confirmed', i)
      /\ (asking # 0 /\ confirmed' = confirmed) =>
           asking' = 0 /\ aTodos' = aTodos /\ aOps' = aOps /\ aStarted' = aStarted
      /\ confirmed' # confirmed =>
           asking # 0 /\ confirmed' = Append(confirmed, asking) /\ InList(aTodos, asking) ]_vars

\* the deletion of todo 1 was confirmed while an add was on its way: both were
\* answered OK, and the created todo, on the server, is gone from the list
C21_Witness ==
  /\ aOps = {} /\ asking = 0 /\ confirmed = <<1>> /\ 1 \notin DOMAIN todos
  /\ Len(aDone) = 1 /\ aDone[1].kind = "add" /\ aDone[1].id \in DOMAIN todos
  /\ aTodos.kind = "list" /\ Len(aTodos.rows) = 2 /\ ~InList(aTodos, aDone[1].id)

\* the two clauses about the dialog alone
C21_DialogOnly ==
  [][ /\ (asking # 0 /\ confirmed' = confirmed) =>
           asking' = 0 /\ aTodos' = aTodos /\ aOps' = aOps /\ aStarted' = aStarted
      /\ confirmed' # confirmed =>
           asking # 0 /\ confirmed' = Append(confirmed, asking) /\ InList(aTodos, asking) ]_vars

\* ------------------------------------------------------------------ C22
\* in the file made by the exporter by, read under the quoting rules of CSV,
\* the first field of each todo's record is the todo's title and the record has
\* as many fields as the header row
TitlesReadBack(by) ==
  exporter = by =>
    LET rows == CsvRecords(csvContent) IN
    /\ Len(rows) = Len(exported) + 1
    /\ \A k \in DOMAIN exported :
          /\ Len(rows[k + 1]) = Len(rows[1])
          /\ rows[k + 1][1] = exported[k].title

\* C22: in the files of both exporters, ExportButton and ExportModal, the title
\* field of every record, read back under CSV quoting rules, equals the todo's
\* title, also when the title has double quotes or commas, and every record has
\* as many fields as the header row.
C22_TitleRoundTrip == TitlesReadBack("ExportButton") /\ TitlesReadBack("ExportModal")

\* ExportModal has exported the todo titled: say "hi", twice; its record reads
\* back as five fields under a header of four, the first one not the title
C22_Witness ==
  /\ exporter = "ExportModal"
  /\ Len(exported) = 1
  /\ exported[1].title = <<"say ", Quote, "hi", Quote, Comma, " twice">>
  /\ LET rows == CsvRecords(csvContent) IN
       /\ Len(rows) = 2 /\ Len(rows[1]) = 4 /\ Len(rows[2]) = 5
       /\ rows[2][1] = <<"say ", "hi", Quote>>

\* the titles in the files of ExportButton alone do read back
C22_ExportButtonTitles == TitlesReadBack("ExportButton")

\* ------------------------------------------------------------------ C23
\* the user a GET /api/todos asks for: its user_id parameter, user 1 without one
AskedUser(r) == IF r.userq = NoUser THEN DefaultUser ELSE r.userq

\* C23: when GET /api/todos is answered 200, the list is exactly the stored
\* todos whose user_id is the request's user_id parameter (user 1 when it has
\* none), each once, newest created_at first; so no todo of another user is in
\* the list.
C23_OwnTodosOnly ==
  [][ (last' # last /\ last'.method = "GET" /\ last'.status = 200) =>
        LET rows == last'.resp.rows
            u == AskedUser(last')
        IN /\ last'.resp.kind = "list"
           /\ \A k \in DOMAIN rows :
                 /\ rows[k].user_id = u
                 /\ rows[k].id \in DOMAIN todos /\ todos[rows[k].id] = rows[k]
           /\ \A i \in DOMAIN todos :
                 todos[i].user_id = u => \E k \in DOMAIN rows : rows[k].id = i
           /\ \A k, l \in DOMAIN rows :
                 k < l => rows[k].id # rows[l].id /\ rows[k].created_at >= rows[l].created_at
    ]_vars

\* a todo was created for user 2, later than the sample todos of user 1, and a
\* GET /api/todos?user_id=2 was answered with that todo alone
C23_Witness ==
  /\ last.method = "GET" /\ last.status = 200 /\ last.userq = 2
  /\ Len(last.resp.rows) = 1 /\ last.resp.rows[1].user_id = 2
  /\ last.resp.rows[1].created_at = 1
  /\ \E i \in DOMAIN todos : todos[i].user_id = DefaultUser

====
